---- MODULE Spec2Model ----
(***************************************************************************)
(* Model of src/sde/sde.py: the Brownian path generator brown(T, N, N_ens) *)
(* and the process-wide numpy random source it draws from.                 *)
(*                                                                         *)
(* Numbers.  Floating-point values (T, dt, sqrt_dt, samples, path values)  *)
(* are fixed-point integers in units of 1/Unit, so 1.0 is Unit and 0.25 is *)
(* Unit \div 4.  The float "not a number" is the value NaN, which every    *)
(* arithmetic operation propagates.                                        *)
(*                                                                         *)
(* Random source.  numpy's global generator is a deterministic stream: its *)
(* state is the seed it was last given and the number of standard-normal   *)
(* samples handed out since.  Stream(s, p) is sample number p of the       *)
(* stream seeded with s.                                                   *)
(*                                                                         *)
(* Matrices are sequences of rows, each row a sequence of values; row k of *)
(* the code (0-based) is row k+1 here, and column j is column j+1.         *)
(***************************************************************************)
EXTENDS Integers, Sequences

VARIABLES rng, seeded, calls, history

vars == <<rng, seeded, calls, history>>

(***************************************************************************)
(* Bounds and input sets                                                   *)
(***************************************************************************)
\* Number of calls of brown one behaviour makes.
MaxCalls == 2

\* Seeds the caller may give to random.seed.
Seeds == {0, 1}

\* Fixed-point scale: the value 1.0.
Unit == 100

\* IEEE not-a-number (np.sqrt of a negative number).
NaN == -1000000

\* Horizons: 0.0 and 1.0.  (A negative horizon with N > 0 makes sqrt_dt NaN
\* and the call return matrices of NaN; N = -1 below reaches that sqrt.)
TVals == {0, Unit}

\* Step counts.
NVals == {-1, 0, 2, 4}

\* Ensemble sizes that can be passed explicitly.
NEnsVals == {0, 1, 2}

\* The third argument of a call: given with a value, or omitted.
NEnsArgs == {[given |-> TRUE, v |-> n] : n \in NEnsVals}
              \cup {[given |-> FALSE, v |-> 0]}

(***************************************************************************)
(* Floating-point helpers                                                  *)
(***************************************************************************)
RECURSIVE Newton(_, _)
\* Integer square root by Newton's iteration, started from above.
Newton(v, r) ==
    LET nxt == (r + v \div r) \div 2
    IN  IF nxt >= r THEN r ELSE Newton(v, nxt)

\* np.sqrt(x): NaN for a negative or NaN argument (line 9).
Sqrt(x) ==
    IF x = NaN \/ x < 0 THEN NaN
    ELSE IF x = 0 THEN 0
    ELSE Newton(x * Unit, x * Unit)

\* T / N for N # 0, Python true division of a float by an int (line 8).
TrueDiv(t, n) ==
    IF n > 0 THEN t \div n ELSE -(t \div (-n))

\* a + b on floats.
FAdd(a, b) == IF a = NaN \/ b = NaN THEN NaN ELSE a + b

\* loc + scale * z, how numpy turns a standard-normal sample z into a
\* sample of normal(loc, scale).
Sample(loc, scale, z) ==
    IF loc = NaN \/ scale = NaN \/ z = NaN THEN NaN
    ELSE loc + (scale * z) \div Unit

(***************************************************************************)
(* The random source (numpy.random, global state)                          *)
(***************************************************************************)
\* The first samples of the stream seeded with 0: 0.2, -0.4, 0.6, 0.1.
Scenario == <<20, -40, 60, 10>>

\* Sample number p (from 0) of the standard-normal stream seeded with s.
Stream(s, p) ==
    IF s = 0 /\ p < Len(Scenario) THEN Scenario[p + 1]
    ELSE (((p * p * 7 + p * 3 + s * 5 + s * p) % 13) - 6) * 10

\* random.normal(loc, scale, (rows, cols)) in generator state r: a negative
\* dimension raises ValueError before any draw; otherwise the matrix is
\* filled in row-major order, one fresh sample per entry, and the state
\* advances by rows * cols samples.
Normal(r, loc, scale, rows, cols) ==
    IF rows < 0 \/ cols < 0
    THEN [exc |-> "ValueError", M |-> <<>>, rng |-> r]
    ELSE [exc |-> "none",
          M   |-> [k \in 1..rows |->
                     [j \in 1..cols |->
                        Sample(loc, scale,
                               Stream(r.seed, r.pos + (k - 1) * cols + (j - 1)))]],
          rng |-> [seed |-> r.seed, pos |-> r.pos + rows * cols]]

(***************************************************************************)
(* Array helpers                                                           *)
(***************************************************************************)
\* A mutant of Zeros: the extra column of W is forgotten.
ZerosNoExtra(rows, cols) ==
    [k \in 1..rows |-> [j \in 1..(cols - 1) |-> 0]]

\* np.zeros((rows, cols)).
Zeros(rows, cols) ==
    [k \in 1..rows |-> [j \in 1..cols |-> 0]]

RECURSIVE RowSum(_, _)
\* Running total of the first j entries of a row, accumulated left to right.
RowSum(row, j) ==
    IF j = 0 THEN 0 ELSE FAdd(RowSum(row, j - 1), row[j])

\* A mutant of Cumsum: no accumulation, the increments themselves.
CumsumNone(M) == M

RECURSIVE ColSum(_, _, _)
\* Running total down column j of the first k rows.
ColSum(M, k, j) ==
    IF k = 0 THEN 0 ELSE FAdd(ColSum(M, k - 1, j), M[k][j])

\* A mutant of Cumsum: accumulation along axis 0, across the rows.
CumsumAxis0(M) ==
    [k \in 1..Len(M) |-> [j \in 1..Len(M[k]) |-> ColSum(M, k, j)]]

\* np.cumsum(M, axis=1): per-row prefix sums, a new matrix.
Cumsum(M) ==
    [k \in 1..Len(M) |-> [j \in 1..Len(M[k]) |-> RowSum(M[k], j)]]

\* A mutant of AssignTail: the slice starts at column 0.
AssignFromZero(Wz, C) ==
    [k \in 1..Len(Wz) |->
       [j \in 1..Len(Wz[k]) |->
          IF j <= Len(C[k]) THEN C[k][j] ELSE Wz[k][j]]]

\* W[:, 1:] = C: column 0 keeps its value, column j >= 1 takes C[:, j-1].
AssignTail(Wz, C) ==
    [k \in 1..Len(Wz) |->
       [j \in 1..Len(Wz[k]) |->
          IF j = 1 THEN Wz[k][1] ELSE C[k][j - 1]]]

(***************************************************************************)
(* brown                                                                   *)
(***************************************************************************)
\* The outcome of a call that raised exception e in generator state r.
Raised(e, r, reqs) ==
    [exc |-> e, W |-> <<>>, dW |-> <<>>, drawn |-> <<>>, req |-> reqs, rng |-> r]

\* The one element of a singleton set (binds a value that is computed once).
Only(S) == CHOOSE x \in S : TRUE

\* The request line 11 makes to the random source.
Request(sqrt_dt, N_ens, N) ==
    <<[loc |-> 0, scale |-> sqrt_dt, rows |-> N_ens, cols |-> N]>>

\* A mutant of brownTail: the prefix sums are accumulated in place, in dW.
brownTailInPlace(r, d, req, N, N_ens) ==
    IF d.exc # "none" THEN Raised(d.exc, r, req)
    ELSE [exc |-> "none",
          W |-> AssignTail(Zeros(N_ens, N + 1), Cumsum(d.M)),
          dW |-> Cumsum(d.M), drawn |-> d.M, req |-> req, rng |-> d.rng]

\* Lines 11 to 15 of brown, given the outcome d of random.normal: an
\* exception of the random source propagates; otherwise
\*   line 12  W = np.zeros((N_ens, N + 1))
\*   line 13  W[:, 1:] = np.cumsum(dW, axis=1)
\*   line 15  return W, dW
brownTail(r, d, req, N, N_ens) ==
    IF d.exc # "none" THEN Raised(d.exc, r, req)
    ELSE [exc |-> "none",
          W |-> AssignTail(Zeros(N_ens, N + 1), Cumsum(d.M)),
          dW |-> d.M, drawn |-> d.M, req |-> req, rng |-> d.rng]

\* A mutant of brown: the generator is reseeded on entry.
brownReseed(r, T, N, N_ens) ==
    IF N = 0 THEN Raised("ZeroDivisionError", r, <<>>)
    ELSE
      LET sqrt_dt == Sqrt(TrueDiv(T, N))
      IN  Only({brownTail(r, d, Request(sqrt_dt, N_ens, N), N, N_ens) :
                  d \in {Normal([seed |-> 0, pos |-> 0], 0, sqrt_dt, N_ens, N)}})

\* A mutant of brown: the function keeps state between calls, and a later
\* call skips as many samples as calls were made before it.
brownStateful(r, T, N, N_ens) ==
    IF N = 0 THEN Raised("ZeroDivisionError", r, <<>>)
    ELSE
      LET sqrt_dt == Sqrt(TrueDiv(T, N))
      IN  Only({brownTail(r, d, Request(sqrt_dt, N_ens, N), N, N_ens) :
                  d \in {Normal([seed |-> r.seed, pos |-> r.pos + calls],
                                0, sqrt_dt, N_ens, N)}})

\* brown(T, N, N_ens) called in generator state r.  The result records the
\* exception raised ("none" when the call returns), the returned W and dW,
\* the matrix the random source delivered (drawn), the requests made to the
\* random source (req) and the generator state the call leaves behind.
\*   line 8   dt = T / N          ZeroDivisionError when N = 0
\*   line 9   sqrt_dt = np.sqrt(dt)
\*   line 11  dW = random.normal(0., sqrt_dt, (N_ens, N))
\*   lines 12 to 15: brownTail
\* No argument is validated.
brown(r, T, N, N_ens) ==
    IF N = 0 THEN Raised("ZeroDivisionError", r, <<>>)
    ELSE
      LET sqrt_dt == Sqrt(TrueDiv(T, N))
      IN  Only({brownTail(r, d, Request(sqrt_dt, N_ens, N), N, N_ens) :
                  d \in {Normal(r, 0, sqrt_dt, N_ens, N)}})

\* A mutant of BindNEns: the default ensemble size is off by one.
BindNEnsOffByOne(arg) == IF arg.given THEN arg.v ELSE 1 + 1

\* The value parameter N_ens is bound to: the argument, or the default 1
\* of the signature when the argument is omitted (line 7).
BindNEns(arg) == IF arg.given THEN arg.v ELSE 1

(***************************************************************************)
(* State machine                                                           *)
(***************************************************************************)
\* The generator starts seeded from system entropy: some seed, no draws yet.
\* No call has been made.  seeded is <<s>> while random.seed(s) was the last
\* thing done to the generator, and <<>> otherwise; calls counts the calls
\* of brown; history holds the last two calls with their outcomes.
Init ==
    /\ rng \in [seed : Seeds, pos : {0}]
    /\ seeded = <<>>
    /\ calls = 0
    /\ history = <<>>

\* random.seed(s): the caller resets the generator (line 18).
Seed(s) ==
    /\ rng' = [seed |-> s, pos |-> 0]
    /\ seeded' = <<s>>
    /\ UNCHANGED <<calls, history>>

\* The history with one more call: it keeps the last two calls.
Remember(h, rec) ==
    IF Len(h) < 2 THEN Append(h, rec) ELSE Append(Tail(h), rec)

\* One call brown(T, N) or brown(T, N, N_ens) by the caller (line 25).  The
\* call and its outcome are appended to the history.
Call(T, N, arg) ==
    /\ calls < MaxCalls
    /\ calls' = calls + 1
    /\ \E N_ens \in {BindNEns(arg)} : \E res \in {brown(rng, T, N, N_ens)} :
           /\ rng' = res.rng
           /\ history' = Remember(history,
                  [T |-> T, N |-> N, arg |-> arg, N_ens |-> N_ens,
                   seeded |-> seeded, rngBefore |-> rng, rngAfter |-> res.rng,
                   exc |-> res.exc, W |-> res.W, dW |-> res.dW,
                   drawn |-> res.drawn, req |-> res.req])
    /\ seeded' = <<>>

Next ==
    \/ \E s \in Seeds : Seed(s)
    \/ \E T \in TVals, N \in NVals, arg \in NEnsArgs : Call(T, N, arg)

Spec == Init /\ [][Next]_vars

(***************************************************************************)
(* Properties                                                              *)
(***************************************************************************)
\* The arguments of call h are valid: T > 0, N >= 1, N_ens >= 1.
Valid(h) == h.T > 0 /\ h.N >= 1 /\ h.N_ens >= 1

\* Some argument of call h is invalid.
Invalid(h) == h.T <= 0 \/ h.N <= 0 \/ h.N_ens <= 0

\* The indices of the calls in the history.
Calls == 1..Len(history)

\* s is the square root of T / N, to the precision of the number model.
IsSqrtOf(s, T, N) ==
    /\ s >= 0
    /\ s * s <= (T \div N) * Unit
    /\ (T \div N) * Unit < (s + 1) * (s + 1)

RECURSIVE SumBelow(_, _)
\* The sum of row[i] over the indices i <= j, taken from the last down.
SumBelow(row, j) ==
    IF j = 0 THEN 0 ELSE row[j] + SumBelow(row, j - 1)

\* The number of entries of matrix M.
Entries(M) == IF Len(M) = 0 THEN 0 ELSE Len(M) * Len(M[1])

\* C1: every call with valid arguments returns W with N_ens rows of N+1
\* columns and dW with N_ens rows of N columns.
C1_Shape ==
    \A i \in Calls :
      LET h == history[i] IN
        Valid(h) =>
          /\ h.exc = "none"
          /\ Len(h.W) = h.N_ens
          /\ Len(h.dW) = h.N_ens
          /\ \A k \in 1..h.N_ens :
               /\ Len(h.W[k]) = h.N + 1
               /\ Len(h.dW[k]) = h.N

\* A valid call with two ensemble members and four steps has returned.
C1_Witness ==
    \E i \in Calls :
      /\ Valid(history[i])
      /\ history[i].N_ens = 2 /\ history[i].N = 4
      /\ Len(history[i].W) = 2 /\ Len(history[i].W[2]) = 5
      /\ Len(history[i].dW) = 2 /\ Len(history[i].dW[2]) = 4

\* C2: for valid arguments, every row of the returned W starts at 0,
\* whatever the random source delivered.
C2_ZeroStart ==
    \A i \in Calls :
      LET h == history[i] IN
        Valid(h) =>
          /\ h.exc = "none"
          /\ \A k \in 1..h.N_ens : h.W[k][1] = 0

\* A valid call whose first increment is not zero returned a path that
\* starts at 0.
C2_Witness ==
    \E i \in Calls :
      /\ Valid(history[i])
      /\ history[i].exc = "none"
      /\ history[i].dW[1][1] # 0
      /\ history[i].W[1][1] = 0

\* C3: for valid arguments, W[k, j] = W[k, j-1] + dW[k, j-1] for every row
\* k and every step j in 1..N.
C3_CumulativeSum ==
    \A i \in Calls :
      LET h == history[i] IN
        Valid(h) =>
          /\ h.exc = "none"
          /\ \A k \in 1..h.N_ens : \A j \in 1..h.N :
               h.W[k][j + 1] = h.W[k][j] + h.dW[k][j]

\* A valid call returned a path in which a later value differs from the
\* increment that led to it: earlier increments are accumulated in it.
C3_Witness ==
    \E i \in Calls :
      /\ Valid(history[i])
      /\ history[i].exc = "none"
      /\ history[i].N >= 2
      /\ history[i].W[1][2] # 0
      /\ history[i].W[1][3] # history[i].dW[1][2]
      /\ history[i].W[1][3] = history[i].W[1][2] + history[i].dW[1][2]

\* C4 (as claimed): a call with T <= 0, N <= 0 or N_ens <= 0 fails with an
\* error and returns no result.  Python has no InvalidArgument; any raised
\* exception is accepted as one here.
C4_InvalidArgumentRaised ==
    \A i \in Calls :
      Invalid(history[i]) =>
        /\ history[i].exc # "none"
        /\ history[i].W = <<>> /\ history[i].dW = <<>>

\* C5 (as claimed): a call with an invalid argument takes no draw from the
\* random source, whose state after the call is its state before, and no
\* matrix is drawn or returned.
C5_NoDrawOnInvalid ==
    \A i \in Calls :
      Invalid(history[i]) =>
        /\ history[i].rngAfter = history[i].rngBefore
        /\ history[i].drawn = <<>>
        /\ history[i].W = <<>> /\ history[i].dW = <<>>

\* C6: two calls with identical arguments, each made right after the random
\* source was reset to the same seed, have identical outcomes: the same W,
\* the same dW (and the same exception, if any).
C6_Determinism ==
    \A i \in Calls : \A j \in Calls :
      LET g == history[i]
          h == history[j]
      IN  ( /\ g.seeded # <<>>
            /\ g.seeded = h.seeded
            /\ g.T = h.T /\ g.N = h.N /\ g.N_ens = h.N_ens )
          => (g.W = h.W /\ g.dW = h.dW /\ g.exc = h.exc)

\* Two valid calls with the same arguments were each made right after
\* seeding with the same seed, and returned the same non-zero increments.
C6_Witness ==
    /\ Len(history) = 2
    /\ history[1].seeded # <<>>
    /\ history[1].seeded = history[2].seeded
    /\ Valid(history[1])
    /\ history[1].T = history[2].T
    /\ history[1].N = history[2].N
    /\ history[1].N_ens = history[2].N_ens
    /\ history[1].N_ens = 2
    /\ history[1].dW[2][1] # 0
    /\ history[1].dW = history[2].dW
    /\ history[1].W = history[2].W

\* C7: a call with the ensemble size omitted is a call with N_ens = 1: for
\* valid T and N it returns W with 1 row of N+1 columns and dW with 1 row of
\* N columns, and its outcome is that of brown(T, N, 1) made in the same
\* state of the random source.
C7_DefaultEnsemble ==
    \A i \in Calls :
      LET g == history[i] IN
        ~g.arg.given =>
          /\ g.N_ens = 1
          /\ (g.T > 0 /\ g.N >= 1) =>
               /\ g.exc = "none"
               /\ Len(g.W) = 1 /\ Len(g.W[1]) = g.N + 1
               /\ Len(g.dW) = 1 /\ Len(g.dW[1]) = g.N
          /\ \A j \in Calls :
               LET h == history[j] IN
                 ( /\ h.arg.given /\ h.arg.v = 1
                   /\ h.T = g.T /\ h.N = g.N
                   /\ h.rngBefore = g.rngBefore )
                 => ( /\ h.W = g.W /\ h.dW = g.dW /\ h.exc = g.exc
                      /\ h.rngAfter = g.rngAfter )

\* brown(T, N) and brown(T, N, 1), with valid T and N, were called in the
\* same state of the random source and returned the same one-row matrices.
C7_Witness ==
    /\ Len(history) = 2
    /\ ~history[1].arg.given
    /\ history[2].arg.given /\ history[2].arg.v = 1
    /\ history[1].T > 0 /\ history[1].N = 4
    /\ history[2].T = history[1].T /\ history[2].N = history[1].N
    /\ history[1].rngBefore = history[2].rngBefore
    /\ Len(history[1].W) = 1
    /\ history[1].W = history[2].W
    /\ history[1].dW = history[2].dW

\* C8: for valid arguments, W[k, j] is the sum of dW[k, i] over i < j of the
\* same row k, for every row k and every j in 0..N; and increments
\* [10, -20, 30, 5] give the path [0, 10, -10, 20, 25].
C8_PrefixSums ==
    \A i \in Calls :
      LET h == history[i] IN
        Valid(h) =>
          /\ h.exc = "none"
          /\ \A k \in 1..h.N_ens : \A j \in 0..h.N :
               h.W[k][j + 1] = SumBelow(h.dW[k], j)
          /\ h.dW = << <<10, -20, 30, 5>> >>
               => h.W = << <<0, 10, -10, 20, 25>> >>

\* The scenario of the specification happened, and a call returned two rows
\* with different increments, each row summed on its own.
C8_Witness ==
    /\ \E i \in Calls :
         /\ history[i].T = Unit /\ history[i].N = 4 /\ history[i].N_ens = 1
         /\ history[i].dW = << <<10, -20, 30, 5>> >>
         /\ history[i].W = << <<0, 10, -10, 20, 25>> >>
    /\ \E i \in Calls :
         /\ Valid(history[i])
         /\ history[i].N_ens = 2 /\ history[i].N >= 2
         /\ history[i].dW[1] # history[i].dW[2]
         /\ history[i].W[1][3] # history[i].W[2][3]
         /\ history[i].W[2][3] = history[i].dW[2][1] + history[i].dW[2][2]

\* C9: a call with valid arguments makes one request to the random source,
\* for an N_ens by N matrix with mean 0 and standard deviation sqrt(T / N);
\* it advances the generator by exactly N_ens * N draws; entry (k, j) of the
\* returned dW is the draw number k * N + j of the call, so every draw fills
\* exactly one entry; and the returned dW is the matrix that was drawn.
C9_Draws ==
    \A i \in Calls :
      LET h == history[i] IN
        Valid(h) =>
          /\ h.exc = "none"
          /\ Len(h.req) = 1
          /\ h.req[1].loc = 0
          /\ IsSqrtOf(h.req[1].scale, h.T, h.N)
          /\ h.req[1].rows = h.N_ens /\ h.req[1].cols = h.N
          /\ h.rngAfter.pos = h.rngBefore.pos + h.N_ens * h.N
          /\ h.dW = h.drawn
          /\ \A k \in 1..h.N_ens : \A j \in 1..h.N :
               h.dW[k][j] =
                 Sample(0, h.req[1].scale,
                        Stream(h.rngBefore.seed,
                               h.rngBefore.pos + (k - 1) * h.N + (j - 1)))

\* A valid call with two rows of two steps was made in a generator that had
\* already been drawn from, and took four draws with non-zero samples.
C9_Witness ==
    \E i \in Calls :
      /\ history[i].T = Unit /\ history[i].N = 2 /\ history[i].N_ens = 2
      /\ history[i].rngBefore.pos > 0
      /\ history[i].rngAfter.pos = history[i].rngBefore.pos + 4
      /\ history[i].dW[1][2] # 0
      /\ history[i].dW[2][1] # history[i].dW[1][1]

\* C10: brown never reseeds the random source and keeps no state of its
\* own.  Every call leaves the seed as it was.  When no random.seed comes
\* between two consecutive calls, the second call starts in the generator
\* state the first one left, and (for valid arguments) its first draw is the
\* stream element right after the last draw of the first call: the two
\* calls consume consecutive segments of one stream.
C10_ConsecutiveSegments ==
    /\ \A i \in Calls : history[i].rngAfter.seed = history[i].rngBefore.seed
    /\ (Len(history) = 2 /\ history[2].seeded = <<>>) =>
         LET g == history[1]
             h == history[2]
         IN  /\ h.rngBefore = g.rngAfter
             /\ g.rngAfter.pos = g.rngBefore.pos + Entries(g.dW)
             /\ Valid(h) =>
                  /\ h.exc = "none"
                  /\ \A k \in 1..h.N_ens : \A j \in 1..h.N :
                       h.dW[k][j] =
                         Sample(0, h.req[1].scale,
                                Stream(g.rngBefore.seed,
                                       g.rngBefore.pos + Entries(g.dW)
                                         + (k - 1) * h.N + (j - 1)))

\* Two valid calls followed each other, with no seeding between them and
\* the first one made right after seeding: the second started where the
\* first stopped.
C10_Witness ==
    /\ Len(history) = 2
    /\ history[1].seeded # <<>>
    /\ history[2].seeded = <<>>
    /\ Valid(history[1]) /\ Valid(history[2])
    /\ history[1].rngBefore.pos = 0
    /\ history[1].N_ens * history[1].N = 4
    /\ history[2].rngBefore.pos = 4
    /\ history[2].dW[1][1] # history[1].dW[1][1]
    /\ history[2].dW[1][1] # 0

====
